---- MODULE Spec2Model ----
(***************************************************************************)
(* ThenFail v0.3 core (src/src/thenfail.ts): the Promise class with its    *)
(* relay-runner protocol (_grab, _run, _relay), the resolve process        *)
(* (_unpack) and the public operations then / resolve / reject.            *)
(*                                                                         *)
(* The heap of promise objects, the setImmediate queue and the closures    *)
(* handed to foreign thenables are gathered in one record (the "heap") so  *)
(* that the private methods, which call each other recursively, can be     *)
(* written as operators from heap to heap.  One action is one entry into   *)
(* the library: a public call, one setImmediate task, or one call made by  *)
(* a foreign thenable on a closure it was handed.  The body of a foreign   *)
(* `then` is code outside the library; while it runs the library is       *)
(* suspended inside `then.call(...)`, which is kept as a stack of frames.  *)
(***************************************************************************)
EXTENDS Integers, Sequences, FiniteSets, TLC

\* ------------------------------------------------------------------ bounds
NumDeferred == 2        \* promises the client holds at the start
MaxThen == 2            \* calls of then()
MaxOps == 3             \* calls made by client and foreign code, in all
MaxCells == 2           \* activations of a foreign then (one _unpack each)
MaxForeign == 2         \* calls on the two closures of one activation
MaxScript == 2          \* calls made by the resolver of one constructor call
MaxRelayOps == 2        \* calls made after the ones that RelayInit starts from

\* ------------------------------------------------------- enum State (l.33)
pending == 0
fulfilled == 1
rejected == 2

Ids == 1..(NumDeferred + MaxThen)

\* ------------------------------------------------------------------ values
\* Every JavaScript value is a record [k, v]; v is always an integer.
Num(i) == [k |-> "number", v |-> i]
Undefined == [k |-> "undefined", v |-> 0]
TypeErr == [k |-> "TypeError", v |-> 0]
Null == [k |-> "null", v |-> 0]
\* the TypeError thrown by reading a property of null
NullErr == [k |-> "TypeError", v |-> 1]
Prom(q) == [k |-> "promise", v |-> q]
\* a foreign object: v = 0 its `then` is a function, v = 1 it has no
\* function `then`, v >= 2 reading `then` throws Num(v)
Foreign(i) == [k |-> "object", v |-> i]

\* a test of `value` that lets every value through
TruthyAlways(value) == TRUE

\* `if (value)` of _unpack: undefined, null and 0 are falsy
Truthy(value) ==
    ~(value.k \in {"undefined", "null"} \/ (value.k = "number" /\ value.v = 0))

\* ---------------------------------------------------------------- handlers
\* What a client passes to then(): [k, s]; k = "function" or, for any other
\* argument, "undefined"; s is the position in which it was passed ("F"
\* onfulfilled, "R" onrejected).  The body of a function is client code: what
\* it does is decided when it is called (see Outcomes).
Function(s) == [k |-> "function", s |-> s]
NoHandler(s) == [k |-> "undefined", s |-> s]
IsFunction(f) == f.k = "function"

VARIABLES
    n,                      \* number of Promise objects constructed
    state,                  \* _state
    running,                \* _running
    valueOrReason,          \* _valueOrReason
    chainedPromise,         \* _chainedPromise   (0 = undefined)
    chainedPromises,        \* _chainedPromises  (<<>> = undefined)
    handledPromise,         \* _handledPromise   (0 = undefined)
    handledPromises,        \* _handledPromises  (<<>> = undefined)
    onPreviousFulfilled,    \* _onPreviousFulfilled
    onPreviousRejected,     \* _onPreviousRejected
    queue,                  \* callbacks handed to setImmediate, FIFO
    cells,                  \* one per _unpack that called a foreign then:
                            \*   its `callback` variable and its closures
    stack,                  \* foreign then.call(...) activations in progress
    log,                    \* history: the handler invocations, in order
    called,                 \* history: calls made on the closures of each cell
    calls,                  \* history: direct resolve()/reject() calls per promise
    ops,                    \* history: calls made by client and foreign code
    made,                   \* history: how each promise was made by then()
    adopt,                  \* history: the pending promise each promise was
                            \*   last unpacked onto, and by whom
    last                    \* history: the step taken last

prog == <<n, state, running, valueOrReason, chainedPromise, chainedPromises,
          handledPromise, handledPromises, onPreviousFulfilled,
          onPreviousRejected, queue, cells, stack>>
hist == <<log, called, calls, ops, made, adopt, last>>
vars == <<n, state, running, valueOrReason, chainedPromise, chainedPromises,
          handledPromise, handledPromises, onPreviousFulfilled,
          onPreviousRejected, queue, cells, stack, log, called, calls, ops, made, adopt,
          last>>

\* the program state as one record (with the record of handler invocations)
Heap ==
    [n |-> n, state |-> state, running |-> running,
     valueOrReason |-> valueOrReason,
     chainedPromise |-> chainedPromise, chainedPromises |-> chainedPromises,
     handledPromise |-> handledPromise, handledPromises |-> handledPromises,
     onPreviousFulfilled |-> onPreviousFulfilled,
     onPreviousRejected |-> onPreviousRejected,
     queue |-> queue, cells |-> cells, stack |-> stack, log |-> log]

\* `new Promise()` without resolver: the field initialisers (l.46-47), every
\* other field undefined
Construct(h) ==
    LET p == h.n + 1 IN
    [h EXCEPT !.n = p,
              !.state[p] = pending,
              !.running[p] = FALSE,
              !.valueOrReason[p] = Undefined,
              !.chainedPromise[p] = 0,
              !.chainedPromises[p] = <<>>,
              !.handledPromise[p] = 0,
              !.handledPromises[p] = <<>>,
              !.onPreviousFulfilled[p] = NoHandler("F"),
              !.onPreviousRejected[p] = NoHandler("R")]

RECURSIVE Relay(_, _, _, _)

\* Run with the handler called at once instead of through setImmediate (here
\* a handler that throws)
RunNow(h, p, handler, previousValueOrReason) ==
    LET ret == [thrown |-> TRUE, val |-> Num(7)]
        h1 == [h EXCEPT !.running[p] = TRUE,
                        !.log = Append(@, [p |-> p, s |-> handler.s,
                                           arg |-> previousValueOrReason,
                                           ret |-> ret])]
    IN  [Relay(h1, p, rejected, ret.val) EXCEPT !.running[p] = FALSE]

\* ------------------------------------------------------ _run (l.119-138)
\* the part of _run that runs inside the caller: the handler is handed to
\* setImmediate together with the value it will receive
\* Run with the task put in front of the waiting ones
RunFirst(h, p, handler, previousValueOrReason) ==
    [h EXCEPT !.running[p] = TRUE,
              !.queue = <<[p |-> p, handler |-> handler,
                           arg |-> previousValueOrReason]>> \o @]

\* Run losing the task (l.119-138 without the setImmediate call)
RunDrops(h, p, handler, previousValueOrReason) ==
    [h EXCEPT !.running[p] = TRUE]

Run(h, p, handler, previousValueOrReason) ==
    [h EXCEPT !.running[p] = TRUE,
              !.queue = Append(@, [p |-> p, handler |-> handler,
                                   arg |-> previousValueOrReason])]

RECURSIVE Grab(_, _, _, _)
RECURSIVE GrabEach(_, _, _, _, _)
RECURSIVE RelayEach(_, _, _, _, _)
RECURSIVE Settle(_, _, _, _)

\* Grab taking whichever handler is there (l.103-107 without the test of
\* previousState)
GrabAnyHandler(h, p, previousState, previousValueOrReason) ==
    IF h.state[p] # pending THEN h
    ELSE LET handler == IF IsFunction(h.onPreviousFulfilled[p])
                        THEN h.onPreviousFulfilled[p]
                        ELSE h.onPreviousRejected[p]
         IN  IF IsFunction(handler)
             THEN Run(h, p, handler, previousValueOrReason)
             ELSE Relay(h, p, previousState, previousValueOrReason)

\* ----------------------------------------------------- _grab (l.96-114)
Grab(h, p, previousState, previousValueOrReason) ==
    IF h.state[p] # pending THEN h
    ELSE LET handler == IF previousState = fulfilled THEN h.onPreviousFulfilled[p]
                        ELSE h.onPreviousRejected[p]
         IN  IF IsFunction(handler)
             THEN Run(h, p, handler, previousValueOrReason)
             ELSE Relay(h, p, previousState, previousValueOrReason)

\* for (let promise of list) promise._grab(state, valueOrReason)
GrabEach(h, list, i, st, v) ==
    IF i > Len(list) THEN h
    ELSE GrabEach(Grab(h, list[i], st, v), list, i + 1, st, v)

\* for (let promise of list) promise._relay(state, valueOrReason)
RelayEach(h, list, i, st, v) ==
    IF i > Len(list) THEN h
    ELSE RelayEach(Relay(h, list[i], st, v), list, i + 1, st, v)

\* Settle that leaves out the promises sharing the state (l.210-219 and
\* l.229-247 without l.221-227)
SettleSkipsAdopters(h, p, st, v) ==
      LET h1 == [h EXCEPT !.state[p] = st, !.valueOrReason[p] = v]
          h3 == IF h1.chainedPromise[p] # 0
                THEN Grab(h1, h1.chainedPromise[p], st, v)
                ELSE GrabEach(h1, h1.chainedPromises[p], 1, st, v)
      IN  [h3 EXCEPT !.onPreviousFulfilled[p] = NoHandler("F"),
                     !.onPreviousRejected[p] = NoHandler("R"),
                     !.chainedPromise[p] = 0,
                     !.chainedPromises[p] =
                         IF h3.chainedPromise[p] # 0 THEN @ ELSE <<>>,
                     !.handledPromise[p] = 0,
                     !.handledPromises[p] =
                         IF h3.handledPromise[p] # 0 THEN @ ELSE <<>>]

\* Settle with the promises sharing the state served before the chained ones
\* (l.221-227 before l.213-219)
SettleAdoptersFirst(h, p, st, v) ==
      LET h1 == [h EXCEPT !.state[p] = st, !.valueOrReason[p] = v]
          h2 == IF h1.handledPromise[p] # 0
                THEN Relay(h1, h1.handledPromise[p], st, v)
                ELSE RelayEach(h1, h1.handledPromises[p], 1, st, v)
          h3 == IF h2.chainedPromise[p] # 0
                THEN Grab(h2, h2.chainedPromise[p], st, v)
                ELSE GrabEach(h2, h2.chainedPromises[p], 1, st, v)
      IN  [h3 EXCEPT !.onPreviousFulfilled[p] = NoHandler("F"),
                     !.onPreviousRejected[p] = NoHandler("R"),
                     !.chainedPromise[p] = 0,
                     !.chainedPromises[p] =
                         IF h3.chainedPromise[p] # 0 THEN @ ELSE <<>>,
                     !.handledPromise[p] = 0,
                     !.handledPromises[p] =
                         IF h3.handledPromise[p] # 0 THEN @ ELSE <<>>]

\* Settle that keeps the references (l.210-227 without l.229-247)
SettleKeeps(h, p, st, v) ==
      LET h1 == [h EXCEPT !.state[p] = st, !.valueOrReason[p] = v]
          h2 == IF h1.chainedPromise[p] # 0
                THEN Grab(h1, h1.chainedPromise[p], st, v)
                ELSE GrabEach(h1, h1.chainedPromises[p], 1, st, v)
      IN  IF h2.handledPromise[p] # 0
          THEN Relay(h2, h2.handledPromise[p], st, v)
          ELSE RelayEach(h2, h2.handledPromises[p], 1, st, v)

\* ---------------------------------------------------- _relay (l.205-248)
\* l.210-247: the state is set and relayed, then the references are dropped
Settle(h, p, st, v) ==
      LET h1 == [h EXCEPT !.state[p] = st, !.valueOrReason[p] = v]
          h2 == IF h1.chainedPromise[p] # 0
                THEN Grab(h1, h1.chainedPromise[p], st, v)
                ELSE GrabEach(h1, h1.chainedPromises[p], 1, st, v)
          h3 == IF h2.handledPromise[p] # 0
                THEN Relay(h2, h2.handledPromise[p], st, v)
                ELSE RelayEach(h2, h2.handledPromises[p], 1, st, v)
      IN  [h3 EXCEPT !.onPreviousFulfilled[p] = NoHandler("F"),
                     !.onPreviousRejected[p] = NoHandler("R"),
                     !.chainedPromise[p] = 0,
                     !.chainedPromises[p] =
                         IF h3.chainedPromise[p] # 0 THEN @ ELSE <<>>,
                     !.handledPromise[p] = 0,
                     !.handledPromises[p] =
                         IF h3.handledPromise[p] # 0 THEN @ ELSE <<>>]

\* Relay with the test of l.206 lost for the assignments of l.210-211
RelayOverwrites(h, p, st, v) ==
    IF h.state[p] # pending
    THEN [h EXCEPT !.state[p] = st, !.valueOrReason[p] = v]
    ELSE Settle(h, p, st, v)

Relay(h, p, st, v) ==
    IF h.state[p] # pending THEN h
    ELSE Settle(h, p, st, v)

\* the `callback` argument of _unpack is one of two closures:
\*   "grab"  (state, valueOrReason) => this._grab(state, valueOrReason)  l.288
\*   "relay" (state, valueOrReason) => { this._relay(...); this._running = false; }
\*                                                                  l.133-136
Callback(h, p, cb, st, v) ==
    IF cb = "grab" THEN Grab(h, p, st, v)
    ELSE [Relay(h, p, st, v) EXCEPT !.running[p] = FALSE]

\* Handle with the single slot written whatever it holds
HandleOverwrites(h, q, p) ==
    [h EXCEPT !.handledPromise[q] = p]

\* l.148-155: `this` (p) joins the promises that share the state of value (q)
Handle(h, q, p) ==
    IF h.handledPromise[q] # 0
    THEN [h EXCEPT !.handledPromises[q] = <<h.handledPromise[q], p>>,
                   !.handledPromise[q] = 0]
    ELSE IF h.handledPromises[q] # <<>>
    THEN [h EXCEPT !.handledPromises[q] = Append(@, p)]
    ELSE [h EXCEPT !.handledPromise[q] = p]

\* l.167-181: then.call(value, resolvePromise, rejectPromise).  The two
\* closures share the `callback` variable of this activation of _unpack (a
\* cell); the foreign then is entered and stays on the stack until it returns.
\* (Beyond MaxCells activations the foreign then is one that returns at once
\* and never uses its arguments.)
ThenCall(h, p, cb) ==
    IF Len(h.cells) >= MaxCells THEN h
    ELSE [h EXCEPT !.cells = Append(@, [p |-> p, cb |-> cb, callback |-> TRUE]),
                   !.stack = Append(@, [cell |-> Len(h.cells) + 1, clear |-> 0])]

\* --------------------------------------------------- _unpack (l.143-200)
Unpack(h, p, value, cb) ==
    IF value = Prom(p)
    THEN Callback(h, p, cb, rejected, TypeErr)
    ELSE IF value.k = "promise"
    THEN IF h.state[value.v] = pending
         THEN Handle(h, value.v, p)
         ELSE Callback(h, p, cb, h.state[value.v], h.valueOrReason[value.v])
    ELSE IF Truthy(value)
    THEN IF value.k \in {"object", "TypeError", "null"}   \* typeof 'object'
         THEN IF value.k = "object" /\ value.v = 0    \* typeof then === 'function'
              THEN ThenCall(h, p, cb)
              ELSE IF value.k = "null"                \* null.then throws
              THEN Callback(h, p, cb, rejected, NullErr)
              ELSE IF value.k = "object" /\ value.v >= 2   \* value.then throws
              THEN Callback(h, p, cb, rejected, Num(value.v))
              ELSE Callback(h, p, cb, fulfilled, value)    \* falls into default
         ELSE Callback(h, p, cb, fulfilled, value)
    ELSE Callback(h, p, cb, fulfilled, value)

\* Task with what the handler returned relayed as a rejection
TaskRejectsOnReturn(h, t, ret) ==
    LET h1 == [h EXCEPT !.log = Append(@, [p |-> t.p, s |-> t.handler.s,
                                           arg |-> t.arg, ret |-> ret])]
    IN  [Relay(h1, t.p, rejected, ret.val) EXCEPT !.running[t.p] = FALSE]

\* Task with the value thrown by the handler treated like a returned one
TaskFulfilsOnThrow(h, t, ret) ==
    LET h1 == [h EXCEPT !.log = Append(@, [p |-> t.p, s |-> t.handler.s,
                                           arg |-> t.arg, ret |-> ret])]
    IN  Unpack(h1, t.p, ret.val, "relay")

\* the closure handed to setImmediate by _run (l.122-137); ret is what
\* handler(previousValueOrReason) did: [thrown, val]
Task(h, t, ret) ==
    LET h1 == [h EXCEPT !.log = Append(@, [p |-> t.p, s |-> t.handler.s,
                                           arg |-> t.arg, ret |-> ret])]
    IN  IF ret.thrown
        THEN [Relay(h1, t.p, rejected, ret.val) EXCEPT !.running[t.p] = FALSE]
        ELSE Unpack(h1, t.p, ret.val, "relay")

\* ThenOp with the single slot written whatever the receiver holds (l.274
\* without l.268-273)
ThenOpOverwrites(h, p, onfulfilled, onrejected) ==
    LET h1 == Construct(h)
        promise == h1.n
        h2 == [h1 EXCEPT
                 !.onPreviousFulfilled[promise] =
                     IF IsFunction(onfulfilled) THEN onfulfilled ELSE @,
                 !.onPreviousRejected[promise] =
                     IF IsFunction(onrejected) THEN onrejected ELSE @]
    IN  IF h2.state[p] = pending
        THEN [h2 EXCEPT !.chainedPromise[p] = promise]
        ELSE Grab(h2, promise, h2.state[p], h2.valueOrReason[p])

\* ThenOp chaining the new promise also to a settled receiver (l.267-275
\* without the test of l.267)
ThenOpChainsAlways(h, p, onfulfilled, onrejected) ==
    LET h1 == Construct(h)
        promise == h1.n
        h2 == [h1 EXCEPT
                 !.onPreviousFulfilled[promise] =
                     IF IsFunction(onfulfilled) THEN onfulfilled ELSE @,
                 !.onPreviousRejected[promise] =
                     IF IsFunction(onrejected) THEN onrejected ELSE @]
    IN  IF h2.chainedPromise[p] # 0
        THEN [h2 EXCEPT !.chainedPromises[p] = <<h2.chainedPromise[p], promise>>,
                        !.chainedPromise[p] = 0]
        ELSE IF h2.chainedPromises[p] # <<>>
        THEN [h2 EXCEPT !.chainedPromises[p] = Append(@, promise)]
        ELSE [h2 EXCEPT !.chainedPromise[p] = promise]

\* ThenOp with the new promise put in front of the chained ones
ThenOpPrepends(h, p, onfulfilled, onrejected) ==
    LET h1 == Construct(h)
        promise == h1.n
        h2 == [h1 EXCEPT
                 !.onPreviousFulfilled[promise] =
                     IF IsFunction(onfulfilled) THEN onfulfilled ELSE @,
                 !.onPreviousRejected[promise] =
                     IF IsFunction(onrejected) THEN onrejected ELSE @]
    IN  IF h2.state[p] = pending
        THEN IF h2.chainedPromise[p] # 0
             THEN [h2 EXCEPT !.chainedPromises[p] = <<promise, h2.chainedPromise[p]>>,
                             !.chainedPromise[p] = 0]
             ELSE IF h2.chainedPromises[p] # <<>>
             THEN [h2 EXCEPT !.chainedPromises[p] = <<promise>> \o @]
             ELSE [h2 EXCEPT !.chainedPromise[p] = promise]
        ELSE Grab(h2, promise, h2.state[p], h2.valueOrReason[p])

\* ------------------------------------------------------ then (l.256-281)
ThenOp(h, p, onfulfilled, onrejected) ==
    LET h1 == Construct(h)
        promise == h1.n
        h2 == [h1 EXCEPT
                 !.onPreviousFulfilled[promise] =
                     IF IsFunction(onfulfilled) THEN onfulfilled ELSE @,
                 !.onPreviousRejected[promise] =
                     IF IsFunction(onrejected) THEN onrejected ELSE @]
    IN  IF h2.state[p] = pending
        THEN IF h2.chainedPromise[p] # 0
             THEN [h2 EXCEPT !.chainedPromises[p] = <<h2.chainedPromise[p], promise>>,
                             !.chainedPromise[p] = 0]
             ELSE IF h2.chainedPromises[p] # <<>>
             THEN [h2 EXCEPT !.chainedPromises[p] = Append(@, promise)]
             ELSE [h2 EXCEPT !.chainedPromise[p] = promise]
        ELSE Grab(h2, promise, h2.state[p], h2.valueOrReason[p])

\* --------------------------------------------------- resolve (l.287-289)
ResolveOp(h, p, value) == Unpack(h, p, value, "grab")

\* ---------------------------------------------------- reject (l.294-296)
RejectOp(h, p, reason) == Grab(h, p, rejected, reason)

\* -------------------------------------- static resolve (l.302-310)
\* the promise returned is value itself or the one just constructed (h.n)
StaticResolveOp(h, value) ==
    IF value.k = "promise" THEN h
    ELSE LET h1 == Construct(h) IN ResolveOp(h1, h1.n, value)

\* --------------------------------------- static reject (l.317-321)
StaticRejectOp(h, reason) ==
    LET h1 == Construct(h) IN RejectOp(h1, h1.n, reason)

\* The resolver given to the constructor is client code: it makes the calls
\* of script, [m, value] each, on the two functions it is handed (l.84-85)
\* and then returns or throws.
RECURSIVE RunScript(_, _, _, _)
RunScript(h, p, script, i) ==
    IF i > Len(script) THEN h
    ELSE RunScript(IF script[i].m = "resolve"
                   THEN ResolveOp(h, p, script[i].value)
                   ELSE RejectOp(h, p, script[i].value),
                   p, script, i + 1)

\* the constructor with the exception of the resolver let through (l.82-89
\* without try/catch): no reject call is made
NewOpNoCatch(h, script, ret) ==
    LET h1 == Construct(h) IN RunScript(h1, h1.n, script, 1)

\* ------------------------------- constructor(resolver) (l.80-91)
NewOp(h, script, ret) ==
    LET h1 == Construct(h)
        h2 == RunScript(h1, h1.n, script, 1)
    IN  IF ret.thrown THEN RejectOp(h2, h1.n, ret.val) ELSE h2

\* ------------------------------------- resolvePromise closure (l.169-174)
ResolvePromise(h, c, value) ==
    IF ~h.cells[c].callback THEN h
    ELSE LET h1 == Unpack(h, h.cells[c].p, value, h.cells[c].cb) IN
         IF Len(h1.stack) > Len(h.stack)
         \* the nested _unpack is inside a foreign then: `callback = undefined`
         \* runs when that then returns
         THEN [h1 EXCEPT !.stack[Len(h1.stack)].clear = c]
         ELSE [h1 EXCEPT !.cells[c].callback = FALSE]

\* -------------------------------------- rejectPromise closure (l.175-180)
RejectPromise(h, c, reason) ==
    IF ~h.cells[c].callback THEN h
    ELSE [Callback(h, h.cells[c].p, h.cells[c].cb, rejected, reason)
             EXCEPT !.cells[c].callback = FALSE]

\* the foreign then on top of the stack is left; a resolvePromise closure
\* that was waiting for it clears its callback (l.172)
Pop(h) ==
    LET f == h.stack[Len(h.stack)]
        h1 == [h EXCEPT !.stack = SubSeq(@, 1, Len(@) - 1)]
    IN  IF f.clear # 0 THEN [h1 EXCEPT !.cells[f.clear].callback = FALSE] ELSE h1

\* then.call(...) returns normally (l.183 break)
ThenReturns(h) == Pop(h)

\* then.call(...) throws e: the catch block (l.185-192)
ThenThrows(h, e) ==
    LET c == h.stack[Len(h.stack)].cell
        h1 == IF h.cells[c].callback
              THEN [Callback(h, h.cells[c].p, h.cells[c].cb, rejected, e)
                       EXCEPT !.cells[c].callback = FALSE]
              ELSE h
    IN  Pop(h1)

\* ================================================================= actions
Commit(h) ==
    /\ n' = h.n
    /\ state' = h.state
    /\ running' = h.running
    /\ valueOrReason' = h.valueOrReason
    /\ chainedPromise' = h.chainedPromise
    /\ chainedPromises' = h.chainedPromises
    /\ handledPromise' = h.handledPromise
    /\ handledPromises' = h.handledPromises
    /\ onPreviousFulfilled' = h.onPreviousFulfilled
    /\ onPreviousRejected' = h.onPreviousRejected
    /\ queue' = h.queue
    /\ cells' = h.cells
    /\ stack' = h.stack
    /\ log' = h.log

\* what clients pass
Plain == {Num(1)}
Reasons == {Num(5)}
Thrown == {Num(7)}
Handlers(s) == {NoHandler(s), Function(s)}
Resolutions == Plain \cup {Prom(q) : q \in 1..n} \cup {Foreign(0)}
\* what a handler called with arg may do: return arg + 1 (v => v + 1), return
\* nothing, throw, return a promise, return a foreign thenable
Plus1(arg) == IF arg.k = "number" THEN Num(arg.v + 1) ELSE arg
Outcomes(arg) ==
    {[thrown |-> FALSE, val |-> v] :
         v \in {Plus1(arg), Foreign(0)} \cup {Prom(q) : q \in 1..n}}
      \cup {[thrown |-> TRUE, val |-> e] : e \in Thrown}

\* the promise value is unpacked onto a pending promise (l.147-155)
Adopts(p, value) ==
    value.k = "promise" /\ value.v # p /\ state[value.v] = pending

\* The client starts with NumDeferred promises it made itself: by
\* `new Promise()` (pending) or by Promise.resolve(1) (l.302-310: a new promise
\* on which resolve(1) was called).  Which promise gets which number does not
\* matter, so the pending ones are numbered first.
Init ==
    /\ n = NumDeferred
    /\ state \in [Ids -> {pending, fulfilled}]
    /\ \A p \in Ids : p > NumDeferred => state[p] = pending
    /\ \A p, q \in 1..NumDeferred : p < q => state[p] <= state[q]
    /\ running = [p \in Ids |-> FALSE]
    /\ valueOrReason = [p \in Ids |-> IF state[p] = fulfilled THEN Num(1)
                                       ELSE Undefined]
    /\ chainedPromise = [p \in Ids |-> 0]
    /\ chainedPromises = [p \in Ids |-> <<>>]
    /\ handledPromise = [p \in Ids |-> 0]
    /\ handledPromises = [p \in Ids |-> <<>>]
    /\ onPreviousFulfilled = [p \in Ids |-> NoHandler("F")]
    /\ onPreviousRejected = [p \in Ids |-> NoHandler("R")]
    /\ queue = <<>>
    /\ cells = <<>>
    /\ stack = <<>>
    /\ called = <<>>
    /\ log = <<>>
    /\ calls = [p \in Ids |-> IF state[p] = pending THEN 0 ELSE 1]
    /\ ops = 0
    /\ made = [p \in Ids |-> [from |-> 0, F |-> FALSE, R |-> FALSE, pend |-> FALSE]]
    /\ adopt = [p \in Ids |-> [from |-> 0, via |-> "none"]]
    /\ last = [op |-> "init", p |-> 0, value |-> Undefined, c |-> 0,
               script |-> <<>>]


\* script: the calls made by the resolver of a constructor call
Step(op, p, value, c) ==
    [op |-> op, p |-> p, value |-> value, c |-> c, script |-> <<>>]

\* promise = p.then(onfulfilled, onrejected)
Then ==
    /\ stack = <<>>
    /\ n < NumDeferred + MaxThen
    /\ ops < MaxOps
    /\ \E p \in 1..n, onfulfilled \in Handlers("F"), onrejected \in Handlers("R") :
          /\ Commit(ThenOp(Heap, p, onfulfilled, onrejected))
          /\ made' = [made EXCEPT ![n + 1] = [from |-> p,
                                              F |-> IsFunction(onfulfilled),
                                              R |-> IsFunction(onrejected),
                                              pend |-> state[p] = pending]]
          /\ last' = Step("then", p, Undefined, 0)
    /\ ops' = ops + 1
    /\ UNCHANGED <<called, calls, adopt>>

\* a cell comes with its history entry
Called(h) == IF Len(h.cells) > Len(called) THEN Append(called, 0) ELSE called

\* p.resolve(value)
Resolve ==
    /\ stack = <<>>
    /\ ops < MaxOps
    /\ \E p \in 1..n, value \in Resolutions :
          LET h == ResolveOp(Heap, p, value) IN
          /\ Commit(h)
          /\ called' = Called(h)
          /\ calls' = [calls EXCEPT ![p] = @ + 1]
          /\ adopt' = IF Adopts(p, value)
                      THEN [adopt EXCEPT ![p] = [from |-> value.v, via |-> "resolve"]]
                      ELSE adopt
          /\ last' = Step("resolve", p, value, 0)
    /\ ops' = ops + 1
    /\ UNCHANGED made

\* p.reject(reason)
Reject ==
    /\ stack = <<>>
    /\ ops < MaxOps
    /\ \E p \in 1..n, reason \in Reasons :
          /\ Commit(RejectOp(Heap, p, reason))
          /\ calls' = [calls EXCEPT ![p] = @ + 1]
          /\ last' = Step("reject", p, reason, 0)
    /\ ops' = ops + 1
    /\ UNCHANGED <<called, made, adopt>>

\* the event loop runs the oldest setImmediate callback; the call stack is empty
RunTask ==
    /\ stack = <<>>
    /\ queue # <<>>
    /\ \E ret \in Outcomes(Head(queue).arg) :
       LET t == Head(queue)
           h == Task([Heap EXCEPT !.queue = Tail(queue)], t, ret)
       IN  /\ Commit(h)
           /\ called' = Called(h)
           /\ adopt' = IF ~ret.thrown /\ Adopts(t.p, ret.val)
                       THEN [adopt EXCEPT ![t.p] = [from |-> ret.val.v, via |-> "handler"]]
                       ELSE adopt
           /\ last' = Step("task", t.p, ret.val, 0)
    /\ UNCHANGED <<calls, ops, made>>

\* foreign code calls resolvePromise(value) of cell c
ForeignResolve ==
    /\ ops < MaxOps
    /\ \E c \in 1..Len(cells), value \in Resolutions :
        /\ called[c] < MaxForeign
        /\ LET h == ResolvePromise(Heap, c, value) IN
           /\ Commit(h)
           /\ called' = [Called(h) EXCEPT ![c] = @ + 1]
           /\ adopt' = IF cells[c].callback /\ Adopts(cells[c].p, value)
                       THEN [adopt EXCEPT ![cells[c].p] =
                                [from |-> value.v, via |-> "foreign"]]
                       ELSE adopt
        /\ last' = Step("resolvePromise", cells[c].p, value, c)
    /\ ops' = ops + 1
    /\ UNCHANGED <<calls, made>>

\* foreign code calls rejectPromise(reason) of cell c
ForeignReject ==
    /\ ops < MaxOps
    /\ \E c \in 1..Len(cells), reason \in Reasons :
        /\ called[c] < MaxForeign
        /\ Commit(RejectPromise(Heap, c, reason))
        /\ called' = [called EXCEPT ![c] = @ + 1]
        /\ last' = Step("rejectPromise", cells[c].p, reason, c)
    /\ ops' = ops + 1
    /\ UNCHANGED <<calls, made, adopt>>

\* the foreign then on top of the stack returns
ForeignReturn ==
    /\ stack # <<>>
    /\ Commit(ThenReturns(Heap))
    /\ last' = Step("return", cells[stack[Len(stack)].cell].p, Undefined,
                    stack[Len(stack)].cell)
    /\ UNCHANGED <<called, calls, ops, made, adopt>>

\* the foreign then on top of the stack throws
ForeignThrow ==
    /\ stack # <<>>
    /\ \E e \in Thrown :
         /\ Commit(ThenThrows(Heap, e))
         /\ last' = Step("throw", cells[stack[Len(stack)].cell].p, e,
                         stack[Len(stack)].cell)
    /\ UNCHANGED <<called, calls, ops, made, adopt>>

\* values given to Promise.resolve(value): falsy values, objects without a
\* function `then`, an Error object, then-like objects, promises
Values ==
    {Undefined, Null, Num(0), Num(1), Foreign(1), TypeErr, Foreign(0), Foreign(2)}
        \cup {Prom(q) : q \in 1..n}

\* promise = Promise.resolve(value)
StaticResolve ==
    /\ stack = <<>>
    /\ ops < MaxOps
    /\ \E value \in Values :
          /\ value.k # "promise" => n < NumDeferred + MaxThen
          /\ LET h == StaticResolveOp(Heap, value) IN
             /\ Commit(h)
             /\ called' = Called(h)
             /\ calls' = IF value.k = "promise" THEN calls
                         ELSE [calls EXCEPT ![h.n] = 1]
             /\ last' = Step("Promise.resolve",
                             IF value.k = "promise" THEN value.v ELSE h.n,
                             value, 0)
    /\ ops' = ops + 1
    /\ UNCHANGED <<made, adopt>>

\* promise = Promise.reject(reason)
StaticReject ==
    /\ stack = <<>>
    /\ ops < MaxOps
    /\ n < NumDeferred + MaxThen
    /\ \E reason \in Reasons :
          /\ Commit(StaticRejectOp(Heap, reason))
          /\ calls' = [calls EXCEPT ![n + 1] = 1]
          /\ last' = Step("Promise.reject", n + 1, reason, 0)
    /\ ops' = ops + 1
    /\ UNCHANGED <<called, made, adopt>>

\* the calls a resolver makes: at most MaxScript of resolve(value) with a
\* plain value or a promise, and reject(reason)
ScriptCalls ==
    {[m |-> "resolve", value |-> v] : v \in Plain \cup {Prom(q) : q \in 1..n}}
        \cup {[m |-> "reject", value |-> r] : r \in Reasons}
Scripts == UNION {[1..k -> ScriptCalls] : k \in 0..MaxScript}

\* the pending promise the new promise was last unpacked onto by script
ScriptAdopt(script) ==
    LET S == {i \in DOMAIN script :
                 /\ script[i].m = "resolve"
                 /\ script[i].value.k = "promise"
                 /\ state[script[i].value.v] = pending}
    IN  IF S = {} THEN [from |-> 0, via |-> "none"]
        ELSE [from |-> script[CHOOSE i \in S : \A j \in S : j <= i].value.v,
              via |-> "resolve"]

\* promise = new Promise(resolver)
New ==
    /\ stack = <<>>
    /\ ops < MaxOps
    /\ n < NumDeferred + MaxThen
    /\ \E script \in Scripts,
          ret \in {[thrown |-> FALSE, val |-> Undefined]}
                     \cup {[thrown |-> TRUE, val |-> e] : e \in Thrown} :
          /\ Commit(NewOp(Heap, script, ret))
          /\ calls' = [calls EXCEPT ![n + 1] =
                           Len(script) + (IF ret.thrown THEN 1 ELSE 0)]
          /\ adopt' = [adopt EXCEPT ![n + 1] = ScriptAdopt(script)]
          /\ last' = [Step("new", n + 1, ret.val, 0) EXCEPT !.script = script]
    /\ ops' = ops + 1
    /\ UNCHANGED <<called, made>>

Next ==
    \/ Then
    \/ Resolve
    \/ Reject
    \/ RunTask
    \/ ForeignResolve
    \/ ForeignReject
    \/ ForeignReturn
    \/ ForeignThrow

Spec == Init /\ [][Next]_vars

\* RunTask can be taken (its guard; Outcomes is never empty)
TaskEnabled == stack = <<>> /\ queue # <<>>

\* a task has run: only RunTask adds to the history of handler calls
TaskRan == Len(log') = Len(log) + 1

\* The event loop runs every setImmediate callback in the end (l.122), and a
\* call of a foreign then comes back before the next task can start.  The
\* first condition is WF_vars(RunTask) written out with the guard of RunTask
\* for ENABLED <<RunTask>>_vars.
\* the promises are made by the constructor with a resolver and by the static
\* resolve and reject, and handed to then
NextMake ==
    \/ New
    \/ StaticResolve
    \/ StaticReject
    \/ Then
    \/ RunTask
    \/ ForeignResolve
    \/ ForeignReject
    \/ ForeignReturn
    \/ ForeignThrow

MakeSpec == Init /\ [][NextMake]_vars

\* NumDeferred promises made by `new Promise()` and nothing else
Fresh ==
    [n |-> NumDeferred,
     state |-> [p \in Ids |-> pending],
     running |-> [p \in Ids |-> FALSE],
     valueOrReason |-> [p \in Ids |-> Undefined],
     chainedPromise |-> [p \in Ids |-> 0],
     chainedPromises |-> [p \in Ids |-> <<>>],
     handledPromise |-> [p \in Ids |-> 0],
     handledPromises |-> [p \in Ids |-> <<>>],
     onPreviousFulfilled |-> [p \in Ids |-> NoHandler("F")],
     onPreviousRejected |-> [p \in Ids |-> NoHandler("R")],
     queue |-> <<>>, cells |-> <<>>, stack |-> <<>>, log |-> <<>>]

\* The client has made  c1 = p1.then(f1, r1); c2 = p2.then(f2, r2);
\* p2.resolve(p1)  on two pending promises p1, p2: p2 shares the state of p1
\* and each of the two has a promise chained to it.  MaxRelayOps further
\* calls are made from here.
RelayInit ==
    \E f1 \in Handlers("F"), r1 \in Handlers("R"),
       f2 \in Handlers("F"), r2 \in Handlers("R") :
       LET h1 == ThenOp(Fresh, 1, f1, r1)
           h2 == ThenOp(h1, 2, f2, r2)
           h == ResolveOp(h2, 2, Prom(1))
       IN  /\ (IsFunction(f1) \/ IsFunction(r1)) /\ (IsFunction(f2) \/ IsFunction(r2))
           /\ n = h.n
           /\ state = h.state
           /\ running = h.running
           /\ valueOrReason = h.valueOrReason
           /\ chainedPromise = h.chainedPromise
           /\ chainedPromises = h.chainedPromises
           /\ handledPromise = h.handledPromise
           /\ handledPromises = h.handledPromises
           /\ onPreviousFulfilled = h.onPreviousFulfilled
           /\ onPreviousRejected = h.onPreviousRejected
           /\ queue = h.queue
           /\ cells = h.cells
           /\ stack = h.stack
           /\ log = h.log
           /\ called = <<>>
           /\ calls = [p \in Ids |-> IF p = 2 THEN 1 ELSE 0]
           /\ ops = MaxOps - MaxRelayOps
           /\ made = [p \in Ids |->
                        IF p = h1.n
                        THEN [from |-> 1, F |-> IsFunction(f1),
                              R |-> IsFunction(r1), pend |-> TRUE]
                        ELSE IF p = h2.n
                        THEN [from |-> 2, F |-> IsFunction(f2),
                              R |-> IsFunction(r2), pend |-> TRUE]
                        ELSE [from |-> 0, F |-> FALSE, R |-> FALSE, pend |-> FALSE]]
           /\ adopt = [p \in Ids |-> IF p = 2 THEN [from |-> 1, via |-> "resolve"]
                                      ELSE [from |-> 0, via |-> "none"]]
           /\ last = Step("resolve", 2, Prom(1), 0)

\* no promise is left for then() to make
NextRelay ==
    \/ Resolve
    \/ Reject
    \/ RunTask
    \/ ForeignResolve
    \/ ForeignReject
    \/ ForeignReturn
    \/ ForeignThrow

RelaySpec == RelayInit /\ [][NextRelay]_vars

FairSpec ==
    /\ Spec
    /\ ([]<>(~TaskEnabled) \/ []<><<TaskRan>>_vars)
    /\ WF_vars(ForeignReturn)

\* ================================================================== claims
Promises == 1..n
Dependents == (NumDeferred + 1)..n          \* the promises made by then()
Settled(p) == state[p] # pending

\* C1: once a promise is fulfilled or rejected, neither its state nor its
\* value/reason changes in any later step (public call, task or foreign call).
C1_SettledStaysSettled ==
    [][\A p \in Ids : Settled(p) =>
          /\ state'[p] = state[p]
          /\ valueOrReason'[p] = valueOrReason[p]]_vars

\* a settled promise on which a direct resolve/reject was tried again, and a
\* settled dependent whose handler ran afterwards
C1_Witness ==
    /\ \E p \in Promises : Settled(p) /\ calls[p] >= 2
    /\ \E d \in Dependents : calls[d] >= 1 /\ Settled(d) /\ last.op = "task" /\ last.p = d

\* C2: of two successive resolve()/reject() calls on one promise only the
\* first has effect: the second call (made when the first has returned)
\* leaves the state and the value/reason of the promise as the first left them.
C2_OnlyFirstCallCounts ==
    [][\A p \in Ids :
          (last'.op \in {"resolve", "reject"} /\ last'.p = p /\ calls[p] >= 1
             /\ calls'[p] = calls[p] + 1)
          => /\ state'[p] = state[p]
             /\ valueOrReason'[p] = valueOrReason[p]]_vars

\* C3: a handler is never called inside the then/resolve/reject call (or the
\* foreign call) that makes it runnable.  A step calls a handler only if it is
\* the event loop taking the oldest setImmediate callback with an empty call
\* stack, and then it calls exactly that one handler, with the value it was
\* queued with in an earlier step; whatever else becomes runnable in the step
\* is queued behind.
C3_HandlersRunOnlyInTasks ==
    [][log' # log =>
          /\ stack = <<>>
          /\ queue # <<>>
          /\ Len(log') = Len(log) + 1
          /\ SubSeq(log', 1, Len(log)) = log
          /\ LET e == log'[Len(log')] IN
             /\ e.p = Head(queue).p
             /\ e.s = Head(queue).handler.s
             /\ e.arg = Head(queue).arg
          /\ Len(queue') >= Len(queue) - 1
          /\ SubSeq(queue', 1, Len(queue) - 1) = Tail(queue)]_vars

\* handlers have run for a dependent attached to a settled promise and for
\* one attached to a promise that settled later
C3_Witness ==
    /\ \E i \in DOMAIN log : ~made[log[i].p].pend /\ calls[log[i].p] = 0
    /\ \E i \in DOMAIN log : made[log[i].p].pend /\ calls[log[i].p] = 0

\* the handler invocations made so far followed by those waiting in the queue
Due == [i \in DOMAIN queue |-> [p |-> queue[i].p, s |-> queue[i].handler.s,
                                arg |-> queue[i].arg]]
Done == [i \in DOMAIN log |-> [p |-> log[i].p, s |-> log[i].s, arg |-> log[i].arg]]
Timeline == Done \o Due
Of(S, seq) == SelectSeq(seq, LAMBDA e : e.p \in S)

\* the elements of a set of promises in the order in which they were made
RECURSIVE InOrder(_)
InOrder(S) ==
    IF S = {} THEN <<>>
    ELSE LET m == CHOOSE x \in S : \A y \in S : x <= y
         IN  <<m>> \o InOrder(S \ {m})

\* the promises made by then(onfulfilled, ...) on f while f was pending and
\* on which the client called neither resolve() nor reject()
Attached(f) ==
    {d \in Dependents : made[d].from = f /\ made[d].pend /\ made[d].F /\ calls[d] = 0}

\* C4: when a promise f to which N fulfillment handlers were attached while it
\* was pending is fulfilled with x, each of the N handlers gets exactly one
\* invocation, with x, in the order of attachment: the invocations made or
\* queued for these dependents are exactly one per dependent, for its
\* onfulfilled handler, with argument x and in the order of the then() calls.
\* (Scope: the N dependents are settled by the library only, the client does
\* not call resolve/reject on them.  That a queued invocation is made is
\* the progress of the queue, C7.)
C4_FanOutInOrder ==
    \A f \in Promises :
        state[f] = fulfilled =>
            LET ds == InOrder(Attached(f)) IN
            Of(Attached(f), Timeline) =
                [i \in DOMAIN ds |-> [p |-> ds[i], s |-> "F", arg |-> valueOrReason[f]]]

\* two handlers attached to a pending promise have both run after it fulfilled
C4_Witness ==
    \E f \in Promises :
        /\ state[f] = fulfilled
        /\ Cardinality(Attached(f)) >= 2
        /\ Len(Of(Attached(f), Done)) >= 2

\* d was unpacked onto the pending promise adopt[d].from and nothing else
\* was ever asked of d: either d is a dependent whose handler returned that
\* promise and the client made no resolve()/reject() call on d, or d is a
\* promise of the client whose only resolve()/reject() call was the
\* resolve() with that promise
Follows(d) ==
    /\ adopt[d].from # 0
    /\ \/ adopt[d].via = "handler" /\ calls[d] = 0
       \/ adopt[d].via = "resolve" /\ calls[d] = 1 /\ made[d].from = 0

\* C5: a dependent D whose handler returned a pending promise B stays pending
\* as long as B is pending and has B's state and value/reason once B is
\* settled; the same holds of B when it was in turn resolved with a pending
\* promise C, so that D and B both end with the state and value/reason of C.
\* (Scope: the client makes no further resolve()/reject() call on D or B.)
C5_AdoptsPendingPromise ==
    \A d \in Promises :
        Follows(d) =>
            LET b == adopt[d].from IN
            IF state[b] = pending THEN state[d] = pending
            ELSE state[d] = state[b] /\ valueOrReason[d] = valueOrReason[b]

\* D follows B by its handler, B follows C, and C has settled
C5_Witness ==
    \E d \in Dependents :
        /\ Follows(d) /\ adopt[d].via = "handler"
        /\ LET b == adopt[d].from IN
           /\ Follows(b)
           /\ adopt[b].from \notin {b, d}
           /\ Settled(adopt[b].from)
           /\ Settled(d)

\* the promises chained to p and the promises sharing p's state, as stored
Chained(p) == IF chainedPromise[p] # 0 THEN <<chainedPromise[p]>> ELSE chainedPromises[p]
Handled(p) == IF handledPromise[p] # 0 THEN <<handledPromise[p]>> ELSE handledPromises[p]
Range(seq) == {seq[i] : i \in DOMAIN seq}

\* C6: when the handler run for a dependent d throws E, d becomes rejected
\* with that same E in the same task, and the rejection is relayed like any
\* other: every pending promise chained to d gets its onrejected handler
\* queued with E or, having none, is rejected with E itself, and every pending
\* promise sharing d's state is rejected with E.
\* (Scope: the client made no resolve()/reject() call on d.)
C6_ThrowRejects ==
    [][(log' # log /\ log'[Len(log')].ret.thrown /\ calls[log'[Len(log')].p] = 0) =>
          LET d == log'[Len(log')].p
              E == log'[Len(log')].ret.val
          IN  /\ state[d] = pending
              /\ state'[d] = rejected
              /\ valueOrReason'[d] = E
              /\ \A c \in Range(Chained(d)) :
                    state[c] = pending =>
                       IF IsFunction(onPreviousRejected[c])
                       THEN \E i \in Len(queue)..Len(queue') :
                                  queue'[i] = [p |-> c, handler |-> onPreviousRejected[c],
                                               arg |-> E]
                       ELSE state'[c] = rejected /\ valueOrReason'[c] = E
              /\ \A a \in Range(Handled(d)) :
                    state[a] = pending =>
                       state'[a] = rejected /\ valueOrReason'[a] = E]_vars

\* a handler has thrown for a dependent that had a chained promise and a
\* promise sharing its state
C6_Witness ==
    /\ log # <<>>
    /\ last.op = "task"
    /\ LET e == log[Len(log)] IN
       /\ e.ret.thrown
       /\ calls[e.p] = 0
       /\ state[e.p] = rejected /\ valueOrReason[e.p] = e.ret.val
       /\ \E c \in Dependents : made[c].from = e.p /\ made[c].pend
       /\ \E a \in Promises : adopt[a].from = e.p /\ state[a] = rejected
                                /\ valueOrReason[a] = e.ret.val

\* d was given a function for the state st of its predecessor
HasHandler(d, st) == IF st = fulfilled THEN made[d].F ELSE made[d].R

\* C8: a dependent d without a function for the kind of state its predecessor
\* f settled to takes exactly f's state and value/reason, and its other
\* handler is neither called nor queued; a dependent with an onrejected
\* function whose predecessor is rejected with r gets that handler queued or
\* called once with r.  Together: a reason passes unchanged through
\* dependents that have only onfulfilled until the first with onrejected.
\* (Scope: the client made no resolve()/reject() call on d.)
C8_PassThrough ==
    \A d \in Dependents :
        LET f == made[d].from IN
        (calls[d] = 0 /\ Settled(f)) =>
            IF HasHandler(d, state[f])
            THEN state[f] = rejected =>
                    Of({d}, Timeline) = <<[p |-> d, s |-> "R", arg |-> valueOrReason[f]]>>
            ELSE /\ state[d] = state[f]
                 /\ valueOrReason[d] = valueOrReason[f]
                 /\ Of({d}, Timeline) = <<>>

\* a rejection has passed a dependent with only onfulfilled and reached the
\* onrejected handler of the next, which was called with the reason
C8_Witness ==
    \E d1, d2 \in Dependents :
        /\ made[d1].from \in 1..NumDeferred
        /\ made[d1].F /\ ~made[d1].R /\ made[d1].pend /\ calls[d1] = 0
        /\ made[d2].from = d1 /\ made[d2].R /\ calls[d2] = 0
        /\ state[made[d1].from] = rejected
        /\ state[d1] = rejected
        /\ Of({d2}, Done) = <<[p |-> d2, s |-> "R", arg |-> valueOrReason[made[d1].from]]>>

\* C9: a pending promise given itself as its resolution value, by
\* p.resolve(p) or by a handler of p returning p, is rejected with the
\* self-resolution TypeError by that step.
C9_SelfResolutionRejects ==
    [][(/\ last'.op \in {"resolve", "task"}
        /\ last'.value = Prom(last'.p)
        /\ state[last'.p] = pending)
       => (/\ state'[last'.p] = rejected
           /\ valueOrReason'[last'.p] = TypeErr)]_vars

\* C10: once one of the two callbacks handed to a foreign then has been
\* called, every later call of either of them changes nothing of the
\* promises, the task queue or the pending foreign calls.
C10_OnlyFirstCallbackCounts ==
    [][(/\ last'.op \in {"resolvePromise", "rejectPromise"}
        /\ called[last'.c] >= 1)
       => UNCHANGED <<state, valueOrReason, queue, chainedPromise,
                      chainedPromises, handledPromise, handledPromises>>]_vars

\* a handler of d has come back with a promise or a then-like object
ReturnedThenable(d) ==
    \E i \in DOMAIN log :
        /\ log[i].p = d
        /\ ~log[i].ret.thrown
        /\ log[i].ret.val.k \in {"promise", "object"}

\* d1 = f.then(F) has been fulfilled and d2 = d1.then(F) is left to the chain
Linked(d1, d2) ==
    /\ d2 \in Dependents
    /\ made[d2].from = d1 /\ made[d2].F /\ calls[d2] = 0
    /\ d1 \in Dependents /\ made[d1].F /\ state[d1] = fulfilled

\* the numbers that promises made by then can have
ThenIds == Ids \ (1..NumDeferred)

\* C7: with the task queue run fairly, a dependent of a settled promise,
\* attached before or after the settlement, settles in the end unless one of
\* its handlers came back with a promise or then-like object; the same then
\* holds of the next link, and the handler of the second link of
\* f.then(F).then(F) is called in the end with what the first came back with.
C7_ChainSettles ==
    /\ \A d \in ThenIds :
          (d \in Dependents /\ Settled(made[d].from))
              ~> (Settled(d) \/ ReturnedThenable(d))
    /\ \A d2 \in ThenIds :
          (d2 \in Dependents /\ Linked(made[d2].from, d2))
              ~> (\E i \in DOMAIN log :
                     /\ log[i].p = d2 /\ log[i].s = "F"
                     /\ log[i].arg = valueOrReason[made[d2].from])

\* f.then(F).then(F) has run to its end: the first handler was called with
\* f's value v and came back with v + 1, the second was called with v + 1
C7_Witness ==
    \E d1, d2 \in Dependents :
        /\ Linked(d1, d2)
        /\ made[d1].pend /\ calls[d1] = 0
        /\ state[made[d1].from] = fulfilled
        /\ \E i, j \in DOMAIN log :
              /\ i < j
              /\ log[i].p = d1 /\ log[i].arg = valueOrReason[made[d1].from]
              /\ log[i].ret = [thrown |-> FALSE, val |-> Plus1(log[i].arg)]
              /\ log[j].p = d2 /\ log[j].arg = Plus1(log[i].arg)
        /\ Settled(d2)

\* C11: when a foreign then throws e, the promise being resolved (still
\* pending) is rejected with e by that step if neither of the two callbacks
\* was called before, and nothing changes if one was.
C11_ThrowOfThenRejects ==
    [][last'.op = "throw" =>
          LET c == last'.c
              p == last'.p
          IN  IF called[c] = 0
              THEN state[p] = pending =>
                      (state'[p] = rejected /\ valueOrReason'[p] = last'.value)
              ELSE UNCHANGED <<state, valueOrReason, queue, chainedPromise,
                               chainedPromises, handledPromise,
                               handledPromises>>]_vars

\* C12: reject(reason) on a pending promise leaves it rejected with reason
\* when the call returns; on a settled promise it changes nothing.
C12_RejectRejects ==
    [][last'.op = "reject" =>
          LET p == last'.p IN
          IF state[p] = pending
          THEN state'[p] = rejected /\ valueOrReason'[p] = last'.value
          ELSE UNCHANGED prog]_vars

\* C13: then() on a settled promise f does not chain the new promise d to
\* f: in that call d's handler for f's state is queued with f's value or,
\* when d has none, d takes f's state and value; no handler is called in the
\* call and nothing else is queued, so the handler that settled f does not
\* run again.
C13_ThenOnSettled ==
    [][(last'.op = "then" /\ Settled(last'.p)) =>
          LET f == last'.p
              d == n'
              s == IF state[f] = fulfilled THEN "F" ELSE "R"
          IN  /\ chainedPromise'[f] = 0
              /\ chainedPromises'[f] = <<>>
              /\ log' = log
              /\ IF (IF state[f] = fulfilled THEN made'[d].F ELSE made'[d].R)
                 THEN /\ state'[d] = pending
                      /\ queue' = Append(queue, [p |-> d, handler |-> Function(s),
                                                 arg |-> valueOrReason[f]])
                 ELSE /\ state'[d] = state[f]
                      /\ valueOrReason'[d] = valueOrReason[f]
                      /\ queue' = queue]_vars

\* d1's handler has run once and settled d1; d2 was attached to d1 after
\* that and its handler is queued with d1's value
C13_Witness ==
    \E d1, d2 \in Dependents :
        /\ made[d2].from = d1 /\ ~made[d2].pend
        /\ Len(Of({d1}, Done)) = 1 /\ Of({d1}, Due) = <<>>
        /\ Of({d2}, Due) = <<[p |-> d2, s |-> "F", arg |-> valueOrReason[d1]]>>

\* neither a promise nor an object whose `then` is a function or throws
NotFutureLike(value) ==
    /\ value.k # "promise"
    /\ value.k = "object" => value.v = 1

\* C14: Promise.resolve(v) with v not future-like (undefined, null, 0, a
\* plain value, an object without a function then) returns a new promise that
\* is fulfilled with v when the call returns, with nothing queued; and a
\* handler attached to a promise is called only by a task taken from the
\* queue, never inside a call.
C14_StaticResolveFulfils ==
    [][/\ (last'.op = "Promise.resolve" /\ NotFutureLike(last'.value)) =>
              /\ n' = n + 1 /\ last'.p = n'
              /\ state'[n'] = fulfilled
              /\ valueOrReason'[n'] = last'.value
              /\ queue' = queue
       /\ log' # log =>
              /\ last'.op = "task"
              /\ stack = <<>> /\ queue # <<>>
              /\ log' = Append(log, log'[Len(log')])
              /\ log'[Len(log')].p = Head(queue).p]_vars

\* Promise.resolve(null) has returned a fulfilled promise and a handler
\* attached to it afterwards has been called, by a task, with null
C14_Witness ==
    \E p, d \in Promises :
        /\ p > NumDeferred /\ made[p].from = 0
        /\ state[p] = fulfilled /\ valueOrReason[p] = Null
        /\ made[d].from = p /\ made[d].F
        /\ Of({d}, Done) = <<[p |-> d, s |-> "F", arg |-> Null]>>

\* the call of a resolver settles the new promise by itself
Settling(call) ==
    \/ call.m = "reject"
    \/ call.value.k # "promise"
    \/ state[call.value.v] # pending

\* the state and value that call gives the new promise
Outcome(call) ==
    IF call.m = "reject" THEN <<rejected, call.value>>
    ELSE IF call.value.k # "promise" THEN <<fulfilled, call.value>>
    ELSE <<state[call.value.v], valueOrReason[call.value.v]>>

\* C15: when the resolver given to the constructor throws e, the new promise
\* is rejected with e if none of the calls the resolver made before had
\* settled it, and otherwise keeps what the first settling call gave it.
C15_ResolverThrowRejects ==
    [][(last'.op = "new" /\ last'.value \in Thrown) =>
          LET p == n'
              script == last'.script
              S == {i \in DOMAIN script : Settling(script[i])}
          IN  /\ n' = n + 1
              /\ IF S = {}
                 THEN state'[p] = rejected /\ valueOrReason'[p] = last'.value
                 ELSE LET i == CHOOSE i \in S : \A j \in S : i <= j
                      IN  <<state'[p], valueOrReason'[p]>> = Outcome(script[i])]_vars

\* a resolver called resolve(b) with b pending and then threw: the new
\* promise is rejected with the thrown value
C15_Witness ==
    /\ last.op = "new" /\ last.value \in Thrown
    /\ Len(last.script) = 1
    /\ last.script[1].m = "resolve" /\ last.script[1].value.k = "promise"
    /\ state[last.script[1].value.v] = pending
    /\ state[last.p] = rejected /\ valueOrReason[last.p] = last.value

\* seq continues pre
IsPrefix(pre, seq) ==
    Len(pre) <= Len(seq) /\ SubSeq(seq, 1, Len(pre)) = pre

\* C16: the handler invocations of all promises form one first-in first-out
\* line: a step either calls exactly one handler, the one queued first, with
\* the argument it was queued with, and leaves the others waiting in their
\* order with new ones behind them, or calls none and only adds behind the
\* ones waiting.  So handlers run one at a time in the order in which they
\* were queued, whatever chains they belong to.
C16_OneTimelineFifo ==
    [][IF log' # log
       THEN /\ queue # <<>>
            /\ log' = Append(log, log'[Len(log')])
            /\ LET e == log'[Len(log')] IN
               /\ e.p = Head(queue).p
               /\ e.s = Head(queue).handler.s
               /\ e.arg = Head(queue).arg
            /\ IsPrefix(Tail(queue), queue')
       ELSE IsPrefix(queue, queue')]_vars

\* the handlers of dependents of two unrelated promises were queued one after
\* the other and have been called in that order
C16_Witness ==
    \E d1, d2 \in Dependents :
        /\ d1 < d2
        /\ made[d1].from # made[d2].from
        /\ made[d1].from \in 1..NumDeferred /\ made[d2].from \in 1..NumDeferred
        /\ ~made[d1].pend /\ ~made[d2].pend
        /\ Len(log) = 2 /\ log[1].p = d1 /\ log[2].p = d2

\* the links of the chain that ends in c, and the promise the chain starts at
RECURSIVE Links(_)
Links(c) == IF made[c].from = 0 THEN {} ELSE {c} \cup Links(made[c].from)
RECURSIVE Source(_)
Source(c) == IF made[c].from = 0 THEN c ELSE Source(made[c].from)

\* what a handler did: came back with a plain value / threw
ReturnedPlain(ret) == ~ret.thrown /\ ret.val.k \notin {"promise", "object"}
NoRejectionHandlerCalled(S) == \A i \in DOMAIN Timeline : Timeline[i].p \in S => Timeline[i].s # "R"

\* a dependent whose onrejected handler was called and came back with a
\* plain value w is fulfilled with w, and no onrejected handler of a promise
\* attached to it (before or after) is called or queued
Recovered ==
    \A d \in Dependents : \A i \in DOMAIN log :
        (log[i].p = d /\ log[i].s = "R" /\ ReturnedPlain(log[i].ret) /\ calls[d] = 0) =>
            /\ state[d] = fulfilled /\ valueOrReason[d] = log[i].ret.val
            /\ NoRejectionHandlerCalled({c \in Dependents : made[c].from = d /\ calls[c] = 0})

\* the chain that ends in c starts at a fulfilled promise and is left to
\* itself (no resolve()/reject() call on its links)
FulfilledChain(c) ==
    /\ state[Source(c)] = fulfilled
    /\ \A d \in Links(c) : calls[d] = 0

\* C17 as stated: recovery as above, and down a chain whose source is
\* fulfilled and none of whose handlers threw no onrejected handler is called.
C17_RecoveryAsStated ==
    /\ Recovered
    /\ \A c \in Dependents :
          (/\ FulfilledChain(c)
           /\ \A i \in DOMAIN log : log[i].p \in Links(c) => ~log[i].ret.thrown)
              => NoRejectionHandlerCalled(Links(c))

\* C17: recovery as above, and down a chain whose source is fulfilled and
\* all of whose handlers called so far came back with plain values (none
\* threw, none came back with a promise or a then-like object) no onrejected
\* handler is called or queued.  (Scope: no resolve()/reject() call on the
\* links of the chain.)
C17_Recovery ==
    /\ Recovered
    /\ \A c \in Dependents :
          (/\ FulfilledChain(c)
           /\ \A i \in DOMAIN log : log[i].p \in Links(c) => ReturnedPlain(log[i].ret))
              => NoRejectionHandlerCalled(Links(c))

\* f was rejected, the onrejected handler of d1 = f.then(.., R) came back with
\* a plain value, and of d2 = d1.then(F, R) the onfulfilled handler was called
C17_Witness ==
    \E d1, d2 \in Dependents :
        /\ made[d1].from \in 1..NumDeferred /\ state[made[d1].from] = rejected
        /\ made[d2].from = d1 /\ made[d2].F /\ made[d2].R
        /\ calls[d1] = 0 /\ calls[d2] = 0
        /\ \E i, j \in DOMAIN log :
              /\ log[i].p = d1 /\ log[i].s = "R" /\ ReturnedPlain(log[i].ret)
              /\ log[j].p = d2 /\ log[j].s = "F" /\ log[j].arg = log[i].ret.val

\* C18: in every state a settled promise has no chained promises, no
\* promises sharing its state and no handlers; so none is ever added to a
\* settled promise either.
C18_SettledHoldsNothing ==
    \A p \in Promises :
        Settled(p) =>
            /\ Chained(p) = <<>> /\ chainedPromises[p] = <<>>
            /\ Handled(p) = <<>> /\ handledPromises[p] = <<>>
            /\ ~IsFunction(onPreviousFulfilled[p])
            /\ ~IsFunction(onPreviousRejected[p])

\* a promise made by then with a handler had a promise chained to it and
\* another one sharing its state while it was pending, and is settled now
C18_Witness ==
    \E d, c, x \in Promises :
        /\ Settled(d) /\ (made[d].F \/ made[d].R) /\ made[d].from # 0
        /\ made[c].from = d /\ made[c].pend
        /\ adopt[x].from = d /\ Settled(x)

\* C19: of a promise made by then at most one handler is ever called, and
\* that one at most once.
C19_OneHandlerOnce ==
    \A d \in Promises : made[d].from # 0 => Len(Of({d}, Done)) <= 1

\* C20: resolve(value) on a pending promise gives it the outcome computed
\* from value inside the call (fulfilled with a plain value, the state and
\* value of a settled promise, the TypeError for itself) and queues nothing:
\* its own handlers are not looked at.
C20_ResolveLeavesHandlers ==
    [][(last'.op = "resolve" /\ state[last'.p] = pending) =>
          LET p == last'.p
              value == last'.value
          IN  /\ value = Prom(p) =>
                    /\ state'[p] = rejected /\ valueOrReason'[p] = TypeErr
                    /\ \A i \in DOMAIN queue' : i > Len(queue) => queue'[i].p # p
              /\ (value.k = "promise" /\ value # Prom(p) /\ Settled(value.v)) =>
                    /\ state'[p] = state[value.v]
                    /\ valueOrReason'[p] = valueOrReason[value.v]
                    /\ \A i \in DOMAIN queue' : i > Len(queue) => queue'[i].p # p
              /\ value.k \notin {"promise", "object"} =>
                    /\ state'[p] = fulfilled /\ valueOrReason'[p] = value
                    /\ \A i \in DOMAIN queue' : i > Len(queue) => queue'[i].p # p]_vars

\* the tasks queued by the step
Queued == {i \in DOMAIN queue' : i > Len(queue) - (IF log' # log THEN 1 ELSE 0)}

\* the step settles q
SettledNow(q) == state[q] = pending /\ state'[q] # pending

\* x is also chained to a promise that the step settles
GrabbedToo(x) ==
    \E q \in Promises : SettledNow(q) /\ x \in Range(Chained(q))

\* x is pending when the relay of p reaches it: the step does not start by
\* settling x, and reaches x from p only
ReachedFrom(p, x) ==
    /\ SettledNow(x) /\ x # last'.p
    /\ \A q \in Promises :
          (SettledNow(q) /\ q # p) =>
              (x \notin Range(Handled(q)) /\ x \notin Range(Chained(q)))

\* x gets p's state and value, and what is queued for the promises chained to
\* x comes after what is queued for the promises chained to p
RelayedTo(p, x) ==
    /\ state'[x] = state'[p]
    /\ valueOrReason'[x] = valueOrReason'[p]
    /\ \A i, j \in Queued :
          (/\ queue'[i].p \in Range(Chained(p))
           /\ queue'[j].p \in Range(Chained(x)))  => i < j

C22_ForeignUnwrapped ==
    [][(/\ last'.op \in {"resolvePromise", "rejectPromise"}
        /\ called[last'.c] = 0
        /\ state[last'.p] = pending) =>
          LET c == last'.c
              p == last'.p
              y == last'.value
          IN  IF last'.op = "rejectPromise"
              THEN state'[p] = rejected /\ valueOrReason'[p] = y
              ELSE IF y = Prom(p)
              THEN state'[p] = rejected /\ valueOrReason'[p] = TypeErr
              ELSE IF y.k = "promise"
              THEN IF state[y.v] = pending
                   THEN /\ state'[p] = pending
                        /\ \/ handledPromise'[y.v] = p
                           \/ p \in Range(handledPromises'[y.v])
                   ELSE /\ state'[p] = state[y.v]
                        /\ valueOrReason'[p] = valueOrReason[y.v]
              ELSE IF y = Foreign(0)
              THEN /\ state'[p] = pending
                   /\ Len(cells) < MaxCells =>
                         /\ Len(cells') = Len(cells) + 1
                         /\ cells'[Len(cells')].p = p
                         /\ cells'[Len(cells')].callback
              ELSE state'[p] = fulfilled /\ valueOrReason'[p] = y]_vars

\* the fields of promise q other than its chained promises are left alone
SameButChained(q) ==
    /\ state'[q] = state[q]
    /\ valueOrReason'[q] = valueOrReason[q]
    /\ handledPromise'[q] = handledPromise[q]
    /\ handledPromises'[q] = handledPromises[q]
    /\ onPreviousFulfilled'[q] = onPreviousFulfilled[q]
    /\ onPreviousRejected'[q] = onPreviousRejected[q]

\* C23: then() makes a new promise d, different from the receiver f, and
\* changes nothing of f but its chained promises, and nothing at all of any
\* other promise.  On a pending f, d is put behind the promises already
\* chained to f, d is pending and nothing is queued; on a settled f the
\* chained promises of f stay as they are, and d is pending or has f's state
\* and value.  No handler is called.
C23_ThenFrame ==
    [][last'.op = "then" =>
          LET f == last'.p
              d == n'
          IN  /\ n' = n + 1 /\ d # f
              /\ log' = log
              /\ SameButChained(f)
              /\ \A q \in Promises \ {f} :
                    /\ SameButChained(q)
                    /\ chainedPromise'[q] = chainedPromise[q]
                    /\ chainedPromises'[q] = chainedPromises[q]
              /\ IF state[f] = pending
                 THEN /\ (IF chainedPromise'[f] # 0 THEN <<chainedPromise'[f]>>
                          ELSE chainedPromises'[f]) = Append(Chained(f), d)
                      /\ queue' = queue
                      /\ state'[d] = pending
                 ELSE /\ chainedPromise'[f] = chainedPromise[f]
                      /\ chainedPromises'[f] = chainedPromises[f]
                      /\ \/ state'[d] = pending
                         \/ /\ state'[d] = state[f]
                            /\ valueOrReason'[d] = valueOrReason[f]]_vars

\* then() was just called on a pending promise that had a promise chained to
\* it and another one sharing its state: the new promise is the last of the
\* chained ones
C23_Witness ==
    /\ last.op = "then" /\ state[last.p] = pending
    /\ Len(Chained(last.p)) = 2 /\ Chained(last.p)[2] = n
    /\ Handled(last.p) # <<>>

\* the promises that share the state of a promise of S, directly or through
\* others
RECURSIVE Closure(_)
Closure(S) ==
    LET T == S \cup {x \in Promises : \E y \in S : x \in Range(Handled(y))}
    IN  IF T = S THEN S ELSE Closure(T)
Sharers(a) == Closure(Range(Handled(a)))
OnCycle(a) == a \in Sharers(a)

\* C24: resolve(b) with b pending settles nothing and queues nothing, also
\* when it closes a cycle of promises sharing each other's state; and a step
\* that settles a promise on such a cycle ends with every pending promise of
\* the cycle in the same state with the same value and with the references
\* of the cycle dropped.
C24_CyclesSettleTogether ==
    [][/\ (/\ last'.op = "resolve"
           /\ last'.value.k = "promise" /\ last'.value # Prom(last'.p)
           /\ state[last'.value.v] = pending) =>
              /\ state' = state
              /\ valueOrReason' = valueOrReason
              /\ queue' = queue
       /\ \A a \in Promises : (SettledNow(a) /\ OnCycle(a)) =>
              \A b \in Sharers(a) : state[b] = pending =>
                  /\ state'[b] = state'[a]
                  /\ valueOrReason'[b] = valueOrReason'[a]
                  /\ handledPromise'[b] = 0
                  /\ handledPromises'[b] = <<>>]_vars

\* a.resolve(b) and b.resolve(a) were called while both were pending, and a
\* call on one of them has settled both alike
C24_Witness ==
    \E a, b \in Promises :
        /\ a # b
        /\ adopt[a] = [from |-> b, via |-> "resolve"]
        /\ adopt[b] = [from |-> a, via |-> "resolve"]
        /\ last.op \in {"resolve", "reject"} /\ last.p = a
        /\ last.value.k # "promise"
        /\ Settled(a) /\ state[b] = state[a]
        /\ valueOrReason[b] = valueOrReason[a]

\* C25: for pending promises D and B, D.resolve(B) gives the same whether
\* B is settled before the call or after it: with b.resolve(v) settling B,
\* the calls  B.resolve(v); D.resolve(B)  and  D.resolve(B); B.resolve(v)
\* leave every promise in the same state with the same value and the same
\* handler calls queued.
C25_ResolveOrderIrrelevant ==
    \A D, B \in Promises : \A v \in Plain :
        (stack = <<>> /\ D # B /\ state[D] = pending /\ state[B] = pending) =>
            LET early == ResolveOp(ResolveOp(Heap, B, v), D, Prom(B))
                late == ResolveOp(ResolveOp(Heap, D, Prom(B)), B, v)
            IN  ResolveOp(Heap, B, v).state[B] # pending =>
                    /\ early.state = late.state
                    /\ early.valueOrReason = late.valueOrReason
                    /\ Range(early.queue) = Range(late.queue)

====
